---- MODULE Spec2Model ----
(***************************************************************************)
(* Model of the elf_reader decoding engine (src/src/header.rs, lib.rs,     *)
(* program_header.rs, section_header.rs, main.rs).                         *)
(*                                                                         *)
(* A byte buffer is a sequence of bytes; buffer offset k is element k+1.   *)
(* An unsigned integer of n bytes (u16, u32, u64) is a "word": the         *)
(* sequence of its n base-256 digits, least significant first, so that     *)
(* every value of the type is represented exactly (TLC's integers are      *)
(* narrower than u32).  Shifts by multiples of 8 and bitwise OR are         *)
(* computed on that representation.                                        *)
(*                                                                         *)
(* Every decoder returns Some(v), None, or Panic: Panic is the abort the   *)
(* Rust runtime raises on an out-of-range slice or index.                  *)
(***************************************************************************)
EXTENDS Integers, Sequences, FiniteSets, TLC

VARIABLES binary, nmut, op, res

vars == <<binary, nmut, op, res>>

(* ----------------------------- bounds --------------------------------- *)

\* how many bytes of a template may be changed (or cuts made) before decoding
MaxMutations == 2

\* the same for the buffers handed to the table decoders
MaxTableMutations == 1

(* ------------------------ results of a decode ------------------------- *)

Some(v) == [tag |-> "Some", val |-> v]
None == [tag |-> "None", val |-> <<>>]
Panic == [tag |-> "Panic", val |-> <<>>]

(* --------------------------- buffer access ---------------------------- *)

\* binary[i]: the byte at offset i (the caller has checked i < len)
At(bin, i) == bin[i + 1]

\* does &binary[a..b] stay inside the buffer?
InRange(bin, a, b) == a <= b /\ b <= Len(bin)

\* &binary[a..b]
Slice(bin, a, b) == SubSeq(bin, a + 1, b)

Reverse(s) == [i \in 1..Len(s) |-> s[Len(s) + 1 - i]]

(* ------------------------- words and bit ops -------------------------- *)

RECURSIVE BitOr(_, _)
BitOr(a, b) ==
  IF a = 0 THEN b
  ELSE IF b = 0 THEN a
  ELSE (IF a % 2 = 1 \/ b % 2 = 1 THEN 1 ELSE 0) + 2 * BitOr(a \div 2, b \div 2)

\* (v as uN): a byte widened to an n-byte word
Widen(v, n) == [i \in 1..n |-> IF i = 1 THEN v ELSE 0]

\* w << (8 * k) at the width of w: the high bytes fall off
Shl(w, k) == [i \in 1..Len(w) |-> IF i > k THEN w[i - k] ELSE 0]

\* a | b on words of the same width
Or(a, b) == [i \in 1..Len(a) |-> BitOr(a[i], b[i])]

Zero(n) == [i \in 1..n |-> 0]

\* the word of a small number (used to write constants and templates)
RECURSIVE Word(_, _)
Word(x, n) == IF n = 0 THEN <<>> ELSE <<x % 256>> \o Word(x \div 256, n - 1)

make_u16(values, is_little_endian) ==
  IF is_little_endian
    THEN Or(Widen(values[1], 2), Shl(Widen(values[2], 2), 1))
    ELSE Or(Widen(values[2], 2), Shl(Widen(values[1], 2), 1))

\* a mutation of make_u32: the third and the fourth byte are shifted alike
make_u32_shift(values, is_little_endian) ==
  LET v == IF is_little_endian
             THEN <<values[1], values[2], values[3], values[4]>>
             ELSE <<values[4], values[3], values[2], values[1]>>
  IN Or(Or(Or(Widen(v[1], 4), Shl(Widen(v[2], 4), 1)),
           Shl(Widen(v[3], 4), 2)),
        Shl(Widen(v[4], 4), 2))

make_u32(values, is_little_endian) ==
  LET v == IF is_little_endian
             THEN <<values[1], values[2], values[3], values[4]>>
             ELSE <<values[4], values[3], values[2], values[1]>>
  IN Or(Or(Or(Widen(v[1], 4), Shl(Widen(v[2], 4), 1)),
           Shl(Widen(v[3], 4), 2)),
        Shl(Widen(v[4], 4), 3))

RECURSIVE Fold64(_, _, _)
Fold64(values, index, acc) ==
  IF index >= Len(values) THEN acc
  ELSE Fold64(values, index + 1, Or(acc, Shl(Widen(values[index + 1], 8), index)))

\* a mutation of make_u64: the byte order asked for is ignored
make_u64_no_rev(values, is_little_endian) == Fold64(values, 0, Zero(8))

make_u64(values, is_little_endian) ==
  LET vs == IF is_little_endian THEN values ELSE Reverse(values)
  IN Fold64(vs, 0, Zero(8))

(* ------------------------- enumerated fields -------------------------- *)

TargetABI_new(value) ==
  CASE value = 0 -> Some("SystemV")
    [] value = 1 -> Some("HP_UX")
    [] value = 2 -> Some("NetBSD")
    [] value = 3 -> Some("Linux")
    [] value = 4 -> Some("GNUHard")
    [] value = 6 -> Some("Solaris")
    [] value = 7 -> Some("AIX")
    [] value = 8 -> Some("IRIX")
    [] value = 9 -> Some("FreeBSD")
    [] value = 10 -> Some("Tru64")
    [] value = 11 -> Some("NovellModestro")
    [] value = 12 -> Some("OpenBSD")
    [] value = 13 -> Some("OpenVMS")
    [] value = 14 -> Some("NonStopKernel")
    [] value = 15 -> Some("AROS")
    [] value = 16 -> Some("FenixOS")
    [] value = 17 -> Some("CloudABI")
    [] OTHER -> None

ObjectFileType_new(value) ==
  CASE value = <<0, 0>> -> Some("NONE")
    [] value = <<1, 0>> -> Some("REL")
    [] value = <<2, 0>> -> Some("EXEC")
    [] value = <<3, 0>> -> Some("DYN")
    [] value = <<4, 0>> -> Some("CORE")
    [] value = <<0, 254>> -> Some("LOOS")
    [] value = <<255, 254>> -> Some("HIOS")
    [] value = <<0, 255>> -> Some("LOPROC")
    [] value = <<255, 255>> -> Some("HIPROC")
    [] OTHER -> None

ISA_new(value) ==
  CASE value = <<0, 0>> -> Some("NONE")
    [] value = <<2, 0>> -> Some("SPARC")
    [] value = <<3, 0>> -> Some("x86")
    [] value = <<8, 0>> -> Some("MIPS")
    [] value = <<20, 0>> -> Some("PowerPC")
    [] value = <<22, 0>> -> Some("S390")
    [] value = <<40, 0>> -> Some("ARM")
    [] value = <<42, 0>> -> Some("SuperH")
    [] value = <<50, 0>> -> Some("IA_64")
    [] value = <<62, 0>> -> Some("x86_64")
    [] value = <<183, 0>> -> Some("AArch64")
    [] value = <<243, 0>> -> Some("RISC_V")
    [] OTHER -> None

(* ---------------------------- file header ----------------------------- *)

\* 0x46_4C_45_7F
MAGIC == <<127, 69, 76, 70>>

\* the closure Header::<u32>::new / Header::<u64>::new hands to construct:
\* reads a field of w bytes at offset and returns (value, offset + w)
truncator(w, bin, offset, is_little) ==
  IF w = 4
    THEN <<make_u32(Slice(bin, offset, offset + 4), is_little), offset + 4>>
    ELSE <<make_u64(Slice(bin, offset, offset + 8), is_little), offset + 8>>

\* the reads of construct after the enumerated fields: none of them can
\* return None, and the first one past the end of the buffer aborts
HeaderTail(bin, w, elf_class, endian, target_abi, object_type, target_isa) ==
  LET is_little == endian = "Little"
      e == truncator(w, bin, 24, is_little)
      p == truncator(w, bin, e[2], is_little)
      s == truncator(w, bin, p[2], is_little)
      offset == s[2]
  IN IF ~InRange(bin, 24, 24 + 3 * w + 16) THEN Panic
     ELSE Some([elf_class |-> elf_class,
                endian |-> endian,
                target_abi |-> target_abi,
                abi_version |-> At(bin, 8),
                object_type |-> object_type,
                target_isa |-> target_isa,
                entry_point |-> e[1],
                program_header_offset |-> p[1],
                section_header_offset |-> s[1],
                flags |-> make_u32(Slice(bin, offset, offset + 4), is_little),
                header_size |-> make_u16(Slice(bin, offset + 4, offset + 6), is_little),
                program_header_size |-> make_u16(Slice(bin, offset + 6, offset + 8), is_little),
                program_header_number |-> make_u16(Slice(bin, offset + 8, offset + 10), is_little),
                section_header_size |-> make_u16(Slice(bin, offset + 10, offset + 12), is_little),
                section_header_number |-> make_u16(Slice(bin, offset + 12, offset + 14), is_little),
                section_name_table_entry |-> make_u16(Slice(bin, offset + 14, offset + 16), is_little)])

\* a mutation of magic_ok: only the low 24 bits of the signature are compared
magic_ok_low24(bin) == SubSeq(make_u32(Slice(bin, 0, 4), TRUE), 1, 3) = SubSeq(MAGIC, 1, 3)

\* let magic = make_u32(&binary[0x0..0x4], true); magic == 0x46_4C_45_7F
magic_ok(bin) == make_u32(Slice(bin, 0, 4), TRUE) = MAGIC

\* fn construct (header.rs): w is the width the truncator reads
construct(bin, w) ==
  IF ~InRange(bin, 0, 4) THEN Panic
  ELSE IF ~magic_ok(bin) THEN None
  ELSE IF ~InRange(bin, 0, 7) THEN Panic
  ELSE IF At(bin, 6) # 1 THEN None
  ELSE IF ~InRange(bin, 0, 21) THEN Panic
  ELSE IF At(bin, 20) # 1 THEN None
  ELSE IF At(bin, 4) \notin {1, 2} THEN None
  ELSE IF At(bin, 5) \notin {1, 2} THEN None
  ELSE
    LET elf_class == IF At(bin, 4) = 1 THEN "ELF32" ELSE "ELF64"
        endian == IF At(bin, 5) = 1 THEN "Little" ELSE "Big"
        is_little == endian = "Little"
        target_abi == TargetABI_new(At(bin, 7))
        object_type == ObjectFileType_new(make_u16(Slice(bin, 16, 18), is_little))
        target_isa == ISA_new(make_u16(Slice(bin, 18, 20), is_little))
    IN IF target_abi.tag = "None" THEN None
       ELSE IF object_type.tag = "None" THEN None
       ELSE IF target_isa.tag = "None" THEN None
       ELSE HeaderTail(bin, w, elf_class, endian, target_abi.val,
                       object_type.val, target_isa.val)

\* Header::<u32>::new
Header32_new(bin) == construct(bin, 4)

\* Header::<u64>::new
Header64_new(bin) == construct(bin, 8)

\* a mutation of get_elf_class: the signature is checked first
get_elf_class_checked(bin) ==
  IF ~InRange(bin, 0, 5) THEN Panic
  ELSE IF ~magic_ok(bin) THEN None
  ELSE IF At(bin, 4) = 1 THEN Some("ELF32")
  ELSE IF At(bin, 4) = 2 THEN Some("ELF64")
  ELSE None

\* Header::get_elf_class
get_elf_class(bin) ==
  IF ~InRange(bin, 0, 5) THEN Panic
  ELSE IF At(bin, 4) = 1 THEN Some("ELF32")
  ELSE IF At(bin, 4) = 2 THEN Some("ELF64")
  ELSE None

(* ------------------- the header decoder of main.rs -------------------- *)

\* fn parse_64bit_header (main.rs)
parse_64bit_header(bin, is_little_endian) ==
  IF ~InRange(bin, 0, 7) THEN Panic
  ELSE IF At(bin, 6) # 1 THEN None
  ELSE IF ~InRange(bin, 0, 8) THEN Panic
  ELSE IF TargetABI_new(At(bin, 7)).tag = "None" THEN None
  ELSE IF ~InRange(bin, 0, 9) \/ ~InRange(bin, 16, 18) THEN Panic
  ELSE IF ObjectFileType_new(make_u16(Slice(bin, 16, 18), is_little_endian)).tag = "None"
    THEN None
  ELSE IF ~InRange(bin, 18, 20) THEN Panic
  ELSE IF ISA_new(make_u16(Slice(bin, 18, 20), is_little_endian)).tag = "None" THEN None
  ELSE IF ~InRange(bin, 20, 24) THEN Panic
  ELSE IF make_u32(Slice(bin, 20, 24), is_little_endian) # Word(1, 4) THEN None
  ELSE IF ~InRange(bin, 24, 64) THEN Panic
  ELSE Some([is_32bit |-> FALSE,
             is_little_endian |-> is_little_endian,
             version |-> 1,
             target_abi |-> TargetABI_new(At(bin, 7)).val,
             abi_version |-> At(bin, 8),
             object_type |->
               ObjectFileType_new(make_u16(Slice(bin, 16, 18), is_little_endian)).val,
             target_isa |-> ISA_new(make_u16(Slice(bin, 18, 20), is_little_endian)).val,
             entry_point |-> make_u64(Slice(bin, 24, 32), is_little_endian),
             program_header_offset |-> make_u64(Slice(bin, 32, 40), is_little_endian),
             section_header_offset |-> make_u64(Slice(bin, 40, 48), is_little_endian),
             flags |-> make_u32(Slice(bin, 48, 52), is_little_endian),
             header_size |-> make_u16(Slice(bin, 52, 54), is_little_endian),
             program_header_size |-> make_u16(Slice(bin, 54, 56), is_little_endian),
             program_header_number |-> make_u16(Slice(bin, 56, 58), is_little_endian),
             section_header_size |-> make_u16(Slice(bin, 58, 60), is_little_endian),
             section_header_number |-> make_u16(Slice(bin, 60, 62), is_little_endian),
             section_name_table_index |-> make_u16(Slice(bin, 62, 64), is_little_endian)])

\* fn parse_header (main.rs)
parse_header(bin) ==
  IF ~InRange(bin, 0, 4) THEN Panic
  ELSE
    LET magic == Or(Or(Or(Widen(At(bin, 0), 4), Shl(Widen(At(bin, 1), 4), 1)),
                       Shl(Widen(At(bin, 2), 4), 2)),
                    Shl(Widen(At(bin, 3), 4), 3))
    IN IF magic # MAGIC THEN None
       ELSE IF ~InRange(bin, 0, 6) THEN Panic
       ELSE IF At(bin, 5) \notin {1, 2} THEN None
       ELSE IF At(bin, 4) = 2 THEN parse_64bit_header(bin, At(bin, 5) = 1)
       ELSE None

(* ------------------------- header accessors --------------------------- *)

is_little(header) == header.endian = "Little"
ph_offset(header) == header.program_header_offset
ph_size(header) == header.program_header_size
ph_num(header) == header.program_header_number
sh_offset(header) == header.section_header_offset
sh_size(header) == header.section_header_size
sh_num(header) == header.section_header_number

(* ------------------------------ usize --------------------------------- *)

\* every buffer of the model is far shorter than Huge, and a usize is only
\* ever compared with buffer lengths: a value of Huge or more is kept as Huge
Huge == 256 * 256 * 256

\* (x as usize) on a 64-bit target: the value of the word x
as_usize(x) ==
  LET d(i) == IF i <= Len(x) THEN x[i] ELSE 0
  IN IF \E i \in 4..Len(x) : x[i] # 0 THEN Huge
     ELSE d(1) + 256 * d(2) + 65536 * d(3)

\* the make_u32 / make_u64 handed to the table decoders as make_unsigned
make_unsigned(w, values, little) ==
  IF w = 4 THEN make_u32(values, little) ELSE make_u64(values, little)

\* &binary[r] for a range r = <<start, end>>
RangeOk(bin, r) == InRange(bin, r[1], r[2])
Range(bin, r) == Slice(bin, r[1], r[2])

(* --------------------------- program headers -------------------------- *)

ProgramType_new(value) ==
  CASE value = <<0, 0, 0, 0>> -> Some("Null")
    [] value = <<1, 0, 0, 0>> -> Some("Load")
    [] value = <<2, 0, 0, 0>> -> Some("Dynamic")
    [] value = <<3, 0, 0, 0>> -> Some("Interp")
    [] value = <<4, 0, 0, 0>> -> Some("Note")
    [] value = <<5, 0, 0, 0>> -> Some("Shlib")
    [] value = <<6, 0, 0, 0>> -> Some("Phdr")
    [] value = <<7, 0, 0, 0>> -> Some("Tls")
    [] value = <<0, 0, 0, 96>> -> Some("Loos")
    [] value = <<255, 255, 255, 111>> -> Some("Hios")
    [] value = <<0, 0, 0, 112>> -> Some("Loproc")
    [] value = <<255, 255, 255, 127>> -> Some("Hiproc")
    [] OTHER -> None

\* ProgramHeader::construct
ProgramHeader_construct(bin, header, flags, entry, w) ==
  IF ~RangeOk(bin, entry[1]) THEN Panic
  ELSE
    LET program_type == ProgramType_new(make_u32(Range(bin, entry[1]), is_little(header)))
        field(k) == make_unsigned(w, Range(bin, entry[k]), is_little(header))
    IN IF program_type.tag = "None" THEN None
       ELSE IF \E k \in 2..7 : ~RangeOk(bin, entry[k]) THEN Panic
       ELSE Some([program_type |-> program_type.val,
                  offset |-> field(2),
                  vaddr |-> field(3),
                  paddr |-> field(4),
                  file_size |-> field(5),
                  memory_size |-> field(6),
                  flags |-> flags,
                  align |-> field(7)])

\* a mutation of ProgramEntry: the 32-bit slot has its flags after the type,
\* as the 64-bit slot has
ProgramEntry_flags_second(entry_point, w) ==
  IF w = 4
    THEN <<<<entry_point + 0, entry_point + 4>>,
           <<entry_point + 8, entry_point + 12>>,
           <<entry_point + 12, entry_point + 16>>,
           <<entry_point + 16, entry_point + 20>>,
           <<entry_point + 20, entry_point + 24>>,
           <<entry_point + 24, entry_point + 28>>,
           <<entry_point + 28, entry_point + 32>>,
           <<entry_point + 4, entry_point + 8>>>>
    ELSE <<<<entry_point + 0, entry_point + 4>>,
           <<entry_point + 8, entry_point + 16>>,
           <<entry_point + 16, entry_point + 24>>,
           <<entry_point + 24, entry_point + 32>>,
           <<entry_point + 32, entry_point + 40>>,
           <<entry_point + 40, entry_point + 48>>,
           <<entry_point + 48, entry_point + 56>>,
           <<entry_point + 4, entry_point + 8>>>>

\* the ranges of one slot: type, offset, vaddr, paddr, file size, memory
\* size, align, and the range of flags last
ProgramEntry(entry_point, w) ==
  IF w = 4
    THEN <<<<entry_point + 0, entry_point + 4>>,
           <<entry_point + 4, entry_point + 8>>,
           <<entry_point + 8, entry_point + 12>>,
           <<entry_point + 12, entry_point + 16>>,
           <<entry_point + 16, entry_point + 20>>,
           <<entry_point + 20, entry_point + 24>>,
           <<entry_point + 28, entry_point + 32>>,
           <<entry_point + 24, entry_point + 28>>>>
    ELSE <<<<entry_point + 0, entry_point + 4>>,
           <<entry_point + 8, entry_point + 16>>,
           <<entry_point + 16, entry_point + 24>>,
           <<entry_point + 24, entry_point + 32>>,
           <<entry_point + 32, entry_point + 40>>,
           <<entry_point + 40, entry_point + 48>>,
           <<entry_point + 48, entry_point + 56>>,
           <<entry_point + 4, entry_point + 8>>>>

\* a mutation of ProgramSlot: every index reads the first slot
ProgramSlot_first(bin, header, index, w) ==
  LET entry_point == as_usize(ph_offset(header))
      entry == ProgramEntry(entry_point, w)
  IN IF ~RangeOk(bin, entry[8]) THEN Panic
     ELSE ProgramHeader_construct(bin, header,
            make_u32(Range(bin, entry[8]), is_little(header)), entry, w)

\* the closure body of ProgramHeader::<u32>::new / ::<u64>::new for one index
ProgramSlot(bin, header, index, w) ==
  LET offset == index * as_usize(ph_size(header))
      entry_point == as_usize(ph_offset(header)) + offset
      entry == ProgramEntry(entry_point, w)
  IN IF ~RangeOk(bin, entry[8]) THEN Panic
     ELSE ProgramHeader_construct(bin, header,
            make_u32(Range(bin, entry[8]), is_little(header)), entry, w)

\* a mutation of ProgramCollect: a slot that decodes to None is left out
RECURSIVE ProgramCollect_skip(_, _, _, _, _)
ProgramCollect_skip(bin, header, w, index, acc) ==
  IF index >= as_usize(ph_num(header)) THEN Some(acc)
  ELSE LET r == ProgramSlot(bin, header, index, w)
       IN IF r.tag = "Some"
            THEN ProgramCollect_skip(bin, header, w, index + 1, Append(acc, r.val))
          ELSE IF r.tag = "None"
            THEN ProgramCollect_skip(bin, header, w, index + 1, acc)
          ELSE r

\* (0..ph_num).map(..).collect::<Option<Vec<_>>>(): slots are decoded in
\* order, and the first None (or abort) ends the iteration
RECURSIVE ProgramCollect(_, _, _, _, _)
ProgramCollect(bin, header, w, index, acc) ==
  IF index >= as_usize(ph_num(header)) THEN Some(acc)
  ELSE LET r == ProgramSlot(bin, header, index, w)
       IN IF r.tag = "Some"
            THEN ProgramCollect(bin, header, w, index + 1, Append(acc, r.val))
            ELSE r

\* ProgramHeader::<u32>::new (w = 4) and ProgramHeader::<u64>::new (w = 8)
ProgramHeader_new(bin, header, w) == ProgramCollect(bin, header, w, 0, <<>>)

(* --------------------------- section headers -------------------------- *)

\* comparison and arithmetic of u32 words
WordLt(a, b) ==
  LET diff == {i \in 1..Len(a) : a[i] # b[i]}
  IN diff # {} /\ LET m == CHOOSE i \in diff : \A j \in diff : j <= i
                  IN a[m] < b[m]

WordGeq(a, b) == ~WordLt(a, b)

RECURSIVE WordAddC(_, _, _, _)
WordAddC(a, b, i, carry) ==
  IF i > Len(a) THEN <<>>
  ELSE <<(a[i] + b[i] + carry) % 256>>
         \o WordAddC(a, b, i + 1, (a[i] + b[i] + carry) \div 256)

\* a + b (no overflow occurs for the operands the code adds)
WordAdd(a, b) == WordAddC(a, b, 1, 0)

RECURSIVE WordSubC(_, _, _, _)
WordSubC(a, b, i, borrow) ==
  IF i > Len(a) THEN <<>>
  ELSE <<(a[i] - b[i] - borrow + 256) % 256>>
         \o WordSubC(a, b, i + 1, IF a[i] - b[i] - borrow < 0 THEN 1 ELSE 0)

\* a - b for a >= b
WordSub(a, b) == WordSubC(a, b, 1, 0)

\* 0x1000_0000, the size of a reserved range
RangeSize == <<0, 0, 0, 16>>
LOOS == <<0, 0, 0, 96>>
LOPROC == <<0, 0, 0, 112>>
LOUSER == <<0, 0, 0, 128>>

\* a mutation of range_check: the upper end of the range is included
range_check_incl(value, base) ==
  WordGeq(value, base) /\ ~WordLt(WordAdd(base, RangeSize), value)

\* let range_check = |value, base| value >= base && value < base + 0x1000_0000
range_check(value, base) ==
  WordGeq(value, base) /\ WordLt(value, WordAdd(base, RangeSize))

Variant(kind, off) == [kind |-> kind, off |-> off]

SectionType_new(value) ==
  CASE value = <<0, 0, 0, 0>> -> Some(Variant("Null", Zero(4)))
    [] value = <<1, 0, 0, 0>> -> Some(Variant("ProgBits", Zero(4)))
    [] value = <<2, 0, 0, 0>> -> Some(Variant("SymTab", Zero(4)))
    [] value = <<3, 0, 0, 0>> -> Some(Variant("StrTab", Zero(4)))
    [] value = <<4, 0, 0, 0>> -> Some(Variant("Rela", Zero(4)))
    [] value = <<5, 0, 0, 0>> -> Some(Variant("Hash", Zero(4)))
    [] value = <<6, 0, 0, 0>> -> Some(Variant("Dynamic", Zero(4)))
    [] value = <<7, 0, 0, 0>> -> Some(Variant("Note", Zero(4)))
    [] value = <<8, 0, 0, 0>> -> Some(Variant("NoBits", Zero(4)))
    [] value = <<9, 0, 0, 0>> -> Some(Variant("Rel", Zero(4)))
    [] value = <<10, 0, 0, 0>> -> Some(Variant("ShLib", Zero(4)))
    [] value = <<11, 0, 0, 0>> -> Some(Variant("DynSym", Zero(4)))
    [] value = <<14, 0, 0, 0>> -> Some(Variant("InitArray", Zero(4)))
    [] value = <<15, 0, 0, 0>> -> Some(Variant("FiniArray", Zero(4)))
    [] value = <<16, 0, 0, 0>> -> Some(Variant("PreinitArray", Zero(4)))
    [] value = <<17, 0, 0, 0>> -> Some(Variant("Group", Zero(4)))
    [] value = <<18, 0, 0, 0>> -> Some(Variant("SymTabSHNDX", Zero(4)))
    [] value = <<19, 0, 0, 0>> -> Some(Variant("Num", Zero(4)))
    [] OTHER ->
         IF range_check(value, LOOS) THEN Some(Variant("Loos", WordSub(value, LOOS)))
         ELSE IF range_check(value, LOPROC) THEN Some(Variant("LoProc", WordSub(value, LOPROC)))
         ELSE IF range_check(value, LOUSER) THEN Some(Variant("LoUser", WordSub(value, LOUSER)))
         ELSE None

\* InnerSectionHeader::construct
InnerSectionHeader_construct(bin, header, entry, w) ==
  IF ~RangeOk(bin, entry[1]) \/ ~RangeOk(bin, entry[2]) THEN Panic
  ELSE
    LET name_offset == as_usize(make_u32(Range(bin, entry[1]), is_little(header)))
        section_type == SectionType_new(make_u32(Range(bin, entry[2]), is_little(header)))
        field(k) == make_unsigned(w, Range(bin, entry[k]), is_little(header))
        word(k) == make_u32(Range(bin, entry[k]), is_little(header))
    IN IF section_type.tag = "None" THEN None
       ELSE IF \E k \in 3..10 : ~RangeOk(bin, entry[k]) THEN Panic
       ELSE Some([name_offset |-> name_offset,
                  section_type |-> section_type.val,
                  flags |-> field(3),
                  addr |-> field(4),
                  offset |-> field(5),
                  size |-> field(6),
                  link |-> word(7),
                  info |-> word(8),
                  addr_align |-> field(9),
                  entry_size |-> field(10)])

\* InnerSectionHeader::make_entry_point
make_entry_point(header, index) ==
  as_usize(sh_offset(header)) + index * as_usize(sh_size(header))

\* a mutation of SectionEntry: the ranges of link and info are exchanged
SectionEntry_info_first(ep, w) ==
  IF w = 4
    THEN <<<<ep + 0, ep + 4>>, <<ep + 4, ep + 8>>, <<ep + 8, ep + 12>>,
           <<ep + 12, ep + 16>>, <<ep + 16, ep + 20>>, <<ep + 20, ep + 24>>,
           <<ep + 28, ep + 32>>, <<ep + 24, ep + 28>>, <<ep + 32, ep + 36>>,
           <<ep + 36, ep + 40>>>>
    ELSE <<<<ep + 0, ep + 4>>, <<ep + 4, ep + 8>>, <<ep + 8, ep + 16>>,
           <<ep + 16, ep + 24>>, <<ep + 24, ep + 32>>, <<ep + 32, ep + 40>>,
           <<ep + 44, ep + 48>>, <<ep + 40, ep + 44>>, <<ep + 48, ep + 56>>,
           <<ep + 56, ep + 64>>>>

\* the ranges of one slot: name, type, flags, addr, offset, size, link,
\* info, addr_align, entry_size
SectionEntry(ep, w) ==
  IF w = 4
    THEN <<<<ep + 0, ep + 4>>, <<ep + 4, ep + 8>>, <<ep + 8, ep + 12>>,
           <<ep + 12, ep + 16>>, <<ep + 16, ep + 20>>, <<ep + 20, ep + 24>>,
           <<ep + 24, ep + 28>>, <<ep + 28, ep + 32>>, <<ep + 32, ep + 36>>,
           <<ep + 36, ep + 40>>>>
    ELSE <<<<ep + 0, ep + 4>>, <<ep + 4, ep + 8>>, <<ep + 8, ep + 16>>,
           <<ep + 16, ep + 24>>, <<ep + 24, ep + 32>>, <<ep + 32, ep + 40>>,
           <<ep + 40, ep + 44>>, <<ep + 44, ep + 48>>, <<ep + 48, ep + 56>>,
           <<ep + 56, ep + 64>>>>

RECURSIVE InnerCollect(_, _, _, _, _)
InnerCollect(bin, header, w, index, acc) ==
  IF index >= as_usize(sh_num(header)) THEN Some(acc)
  ELSE LET r == InnerSectionHeader_construct(bin, header,
                  SectionEntry(make_entry_point(header, index), w), w)
       IN IF r.tag = "Some"
            THEN InnerCollect(bin, header, w, index + 1, Append(acc, r.val))
            ELSE r

\* InnerSectionHeader::<u32>::new (w = 4) and ::<u64>::new (w = 8)
InnerSectionHeader_new(bin, header, w) == InnerCollect(bin, header, w, 0, <<>>)

\* std::str::from_utf8(s).is_ok()
RECURSIVE Utf8Valid(_)
Utf8Valid(s) ==
  IF s = <<>> THEN TRUE
  ELSE
    LET b == s[1]
        n == Len(s)
        cont(k) == n >= k /\ s[k] \in 128..191
        rest(k) == Utf8Valid(SubSeq(s, k, n))
    IN IF b < 128 THEN rest(2)
       ELSE IF b \in 194..223 THEN cont(2) /\ rest(3)
       ELSE IF b = 224 THEN n >= 2 /\ s[2] \in 160..191 /\ cont(3) /\ rest(4)
       ELSE IF b \in 225..236 \/ b \in 238..239 THEN cont(2) /\ cont(3) /\ rest(4)
       ELSE IF b = 237 THEN n >= 2 /\ s[2] \in 128..159 /\ cont(3) /\ rest(4)
       ELSE IF b = 240 THEN n >= 2 /\ s[2] \in 144..191 /\ cont(3) /\ cont(4) /\ rest(5)
       ELSE IF b \in 241..243 THEN cont(2) /\ cont(3) /\ cont(4) /\ rest(5)
       ELSE IF b = 244 THEN n >= 2 /\ s[2] \in 128..143 /\ cont(3) /\ cont(4) /\ rest(5)
       ELSE FALSE

\* binary[name_entry..].iter().position(|&bin| bin == 0): Some(count of the
\* bytes before the first zero byte) or None
RECURSIVE position(_, _, _)
position(bin, name_entry, k) ==
  IF name_entry + k >= Len(bin) THEN None
  ELSE IF At(bin, name_entry + k) = 0 THEN Some(k)
  ELSE position(bin, name_entry, k + 1)

\* inner_headers.last()
shstrtab(header, inner_headers) == inner_headers[Len(inner_headers)]

\* the closure of SectionHeader::construct for one raw record
ResolveName(bin, section_entry, inner) ==
  LET name_entry == inner.name_offset + section_entry
  IN IF name_entry > Len(bin) THEN Panic
     ELSE LET end_of_string == position(bin, name_entry, 0)
          IN IF end_of_string.tag = "None" THEN None
             ELSE LET bytes == Slice(bin, name_entry, name_entry + end_of_string.val)
                  IN IF Utf8Valid(bytes)
                       THEN Some([name |-> bytes, inner |-> inner])
                       ELSE None

RECURSIVE NameCollect(_, _, _, _, _)
NameCollect(bin, section_entry, inner_headers, i, acc) ==
  IF i > Len(inner_headers) THEN Some(acc)
  ELSE LET r == ResolveName(bin, section_entry, inner_headers[i])
       IN IF r.tag = "Some"
            THEN NameCollect(bin, section_entry, inner_headers, i + 1, Append(acc, r.val))
            ELSE r

\* a mutation of SectionHeader_construct: a table without a last record is
\* refused (inner_headers.last()?)
SectionHeader_construct_strict(bin, header, inner_headers) ==
  IF inner_headers = <<>> THEN None
  ELSE LET section_entry == as_usize(shstrtab(header, inner_headers).offset)
       IN NameCollect(bin, section_entry, inner_headers, 1, <<>>)

\* SectionHeader::construct
SectionHeader_construct(bin, header, inner_headers) ==
  IF inner_headers = <<>> THEN Some(<<>>)
  ELSE LET section_entry == as_usize(shstrtab(header, inner_headers).offset)
       IN NameCollect(bin, section_entry, inner_headers, 1, <<>>)

\* SectionHeader::<u32>::new (w = 4) and SectionHeader::<u64>::new (w = 8)
SectionHeader_new(bin, header, w) ==
  LET ih == InnerSectionHeader_new(bin, header, w)
  IN IF ih.tag # "Some" THEN ih
     ELSE SectionHeader_construct(bin, header, ih.val)

(* ------------------------------ full decode --------------------------- *)

\* a mutation of ELF_new: the section headers are decoded before the
\* program headers
ELF_new_sections_first(bin, w) ==
  LET header == IF w = 4 THEN Header32_new(bin) ELSE Header64_new(bin)
  IN IF header.tag # "Some" THEN header
     ELSE LET section_headers == SectionHeader_new(bin, header.val, w)
          IN IF section_headers.tag # "Some" THEN section_headers
             ELSE LET program_headers == ProgramHeader_new(bin, header.val, w)
                  IN IF program_headers.tag # "Some" THEN program_headers
                     ELSE Some([header |-> header.val,
                                program_headers |-> program_headers.val,
                                section_headers |-> section_headers.val,
                                data |-> bin])

\* ELF::<u32>::new (w = 4) and ELF::<u64>::new (w = 8)
ELF_new(bin, w) ==
  LET header == IF w = 4 THEN Header32_new(bin) ELSE Header64_new(bin)
  IN IF header.tag # "Some" THEN header
     ELSE LET program_headers == ProgramHeader_new(bin, header.val, w)
          IN IF program_headers.tag # "Some" THEN program_headers
             ELSE LET section_headers == SectionHeader_new(bin, header.val, w)
                  IN IF section_headers.tag # "Some" THEN section_headers
                     ELSE Some([header |-> header.val,
                                program_headers |-> program_headers.val,
                                section_headers |-> section_headers.val,
                                data |-> bin])

(* ------------------------------ inputs -------------------------------- *)

\* the bytes of x in n bytes, in the given byte order
Enc(x, n, little) == IF little THEN Word(x, n) ELSE Reverse(Word(x, n))

HeaderLen(w) == IF w = 4 THEN 52 ELSE 64
ProgramLen(w) == IF w = 4 THEN 32 ELSE 56
SectionLen(w) == IF w = 4 THEN 40 ELSE 64

\* a program-header slot in the layout of the class
ProgramBytes(w, l, type, flags, offset, vaddr, paddr, filesz, memsz, align) ==
  IF w = 4
    THEN Enc(type, 4, l) \o Enc(offset, 4, l) \o Enc(vaddr, 4, l) \o Enc(paddr, 4, l)
         \o Enc(filesz, 4, l) \o Enc(memsz, 4, l) \o Enc(flags, 4, l) \o Enc(align, 4, l)
    ELSE Enc(type, 4, l) \o Enc(flags, 4, l) \o Enc(offset, 8, l) \o Enc(vaddr, 8, l)
         \o Enc(paddr, 8, l) \o Enc(filesz, 8, l) \o Enc(memsz, 8, l) \o Enc(align, 8, l)

\* a section-header slot in the layout of the class
SectionBytes(w, l, name, type, flags, addr, offset, size, link, info, align, entsize) ==
  Enc(name, 4, l) \o Enc(type, 4, l) \o Enc(flags, w, l) \o Enc(addr, w, l)
  \o Enc(offset, w, l) \o Enc(size, w, l) \o Enc(link, 4, l) \o Enc(info, 4, l)
  \o Enc(align, w, l) \o Enc(entsize, w, l)

\* the contents of the second section ("QR", "R", "TU" read as names) and
\* the section-name string table ("", "ab", "cd")
TextData == <<81, 82, 0, 83, 84, 85, 0, 0>>
NameData == <<0, 97, 98, 0, 99, 100, 0>>

\* A well-formed file of class w (4: 32-bit, 8: 64-bit) in the given byte
\* order: header, one program header, three section headers (null, a
\* PROGBITS section, the string table, which is the last one), the data.
Template(w, l) ==
  LET phoff == HeaderLen(w)
      shoff == phoff + ProgramLen(w)
      text == shoff + 3 * SectionLen(w)
      names == text + Len(TextData)
  IN <<127, 69, 76, 70, IF w = 4 THEN 1 ELSE 2, IF l THEN 1 ELSE 2, 1, 0, 0>>
     \o Zero(7)
     \o Enc(2, 2, l) \o Enc(IF w = 4 THEN 3 ELSE 62, 2, l) \o Enc(1, 4, l)
     \o Enc(4198432, w, l) \o Enc(phoff, w, l) \o Enc(shoff, w, l)
     \o Enc(50331650, 4, l) \o Enc(HeaderLen(w), 2, l)
     \o Enc(ProgramLen(w), 2, l) \o Enc(1, 2, l)
     \o Enc(SectionLen(w), 2, l) \o Enc(3, 2, l) \o Enc(2, 2, l)
     \o ProgramBytes(w, l, 1, 5, 0, 4194304, 4259840, names + 7, names + 9, 4096)
     \o SectionBytes(w, l, 0, 0, 0, 0, 0, 0, 0, 0, 0, 0)
     \o SectionBytes(w, l, 1, 1, 6, 4198432, text, 8, 2, 3, 16, 4)
     \o SectionBytes(w, l, 4, 3, 0, 0, names, 7, 0, 0, 1, 0)
     \o TextData \o NameData

Templates == {Template(8, TRUE), Template(8, FALSE), Template(4, TRUE)}

\* the changes of one byte, <<offset, value>>, tried on the file header
HeaderPokes ==
  { <<0, 0>>, <<3, 71>>,
    <<4, 0>>, <<4, 1>>, <<4, 2>>, <<4, 3>>,
    <<5, 0>>, <<5, 1>>, <<5, 2>>, <<5, 3>>,
    <<6, 0>>, <<6, 2>>,
    <<7, 5>>, <<7, 17>>, <<7, 18>>,
    <<8, 9>>,
    <<16, 0>>, <<16, 5>>, <<17, 2>>, <<17, 255>>,
    <<18, 0>>, <<18, 1>>, <<19, 62>>,
    <<20, 0>>, <<20, 1>>, <<20, 2>>, <<21, 1>>, <<23, 1>>,
    <<24, 255>>, <<31, 7>> }

\* the lengths a buffer is cut to before the header is decoded
HeaderCuts == {0, 3, 4, 5, 6, 7, 20, 21, 24, 51, 52, 63, 64}

\* Template(w, FALSE) with the byte at 0x14 set to 1: the big-endian files
\* whose header the decoder lets through (see construct)
Passing(bin) == [bin EXCEPT ![21] = 1]

\* a 32-bit file that declares two program headers (the second slot is the
\* bytes that follow the first) and a 64-bit file that declares no section
TwoSegments == [Template(4, TRUE) EXCEPT ![45] = 2]
NoSections == [Template(8, TRUE) EXCEPT ![61] = 0]

TableTemplates ==
  {Template(8, TRUE), Template(4, TRUE),
   Passing(Template(8, FALSE)), Passing(Template(4, FALSE)),
   TwoSegments, NoSections}

\* the changes of one byte, <<offset, value>>, tried on the tables of a
\* 64-bit little-endian file and on the data they point to
TablePokes64 ==
  { <<7, 5>>, <<33, 1>>, <<40, 121>>, <<41, 1>>, <<54, 8>>, <<54, 57>>,
    <<56, 0>>, <<56, 2>>, <<58, 65>>,
    <<60, 0>>, <<60, 1>>, <<60, 2>>, <<61, 4>>,
    <<62, 1>>, <<63, 1>>,
    <<64, 8>>, <<67, 96>>,
    <<124, 12>>, <<124, 19>>,
    <<127, 96>>, <<127, 112>>, <<127, 128>>, <<127, 144>>,
    <<188, 13>>, <<191, 111>>, <<191, 144>>,
    <<248, 7>>, <<248, 8>>, <<251, 8>>,
    <<272, 56>>, <<273, 2>>,
    <<321, 195>>, <<323, 1>>, <<326, 1>> }

\* the same for a 32-bit little-endian file
TablePokes32 ==
  { <<7, 5>>, <<33, 1>>, <<42, 33>>, <<44, 0>>, <<44, 2>>,
    <<48, 0>>, <<48, 4>>, <<49, 4>>, <<50, 1>>, <<51, 1>>,
    <<42, 4>>, <<52, 8>>, <<55, 96>>,
    <<84, 9>>, <<88, 12>>, <<91, 96>>, <<91, 112>>, <<91, 144>>,
    <<128, 13>>, <<131, 111>>, <<131, 144>>,
    <<164, 7>>, <<164, 8>>, <<167, 8>>,
    <<180, 204>>,
    <<213, 255>>, <<215, 1>>, <<218, 1>> }

\* the same for the big-endian files: the counts, the string-table index,
\* a segment type, a section type and a name offset
TablePokes64BE ==
  { <<57, 0>>, <<57, 2>>, <<61, 0>>, <<63, 1>>, <<67, 8>>,
    <<188, 96>>, <<191, 13>>, <<251, 8>> }
TablePokes32BE ==
  { <<45, 0>>, <<45, 2>>, <<49, 0>>, <<51, 1>>, <<55, 8>>,
    <<128, 96>>, <<131, 13>>, <<167, 8>> }

TablePokes(bin) ==
  IF At(bin, 5) = 2
    THEN (IF At(bin, 4) = 1 THEN TablePokes32BE ELSE TablePokes64BE)
    ELSE (IF At(bin, 4) = 1 THEN TablePokes32 ELSE TablePokes64)

\* the lengths a buffer is cut to before the tables are decoded
TableCuts64 == {326, 320, 311, 252, 130, 68}
TableCuts32 == {218, 212, 203, 90}
TableCuts(bin) == IF At(bin, 4) = 1 THEN TableCuts32 ELSE TableCuts64

(* ------------------------------ the program --------------------------- *)

Idle == [tag |-> "Idle", val |-> <<>>]

Init ==
  /\ binary \in Templates
  /\ nmut = 0
  /\ op = "idle"
  /\ res = Idle

\* the caller prepares the buffer: one byte of it is changed
Poke(p, max) ==
  /\ op = "idle"
  /\ nmut < max
  /\ p[1] < Len(binary)
  /\ At(binary, p[1]) # p[2]
  /\ binary' = [binary EXCEPT ![p[1] + 1] = p[2]]
  /\ nmut' = nmut + 1
  /\ UNCHANGED <<op, res>>

\* the caller prepares the buffer: it is cut to its first n bytes
Cut(n, max) ==
  /\ op = "idle"
  /\ nmut < max
  /\ n < Len(binary)
  /\ binary' = SubSeq(binary, 1, n)
  /\ nmut' = nmut + 1
  /\ UNCHANGED <<op, res>>

Call(name, result) ==
  /\ op = "idle"
  /\ op' = name
  /\ res' = result
  /\ UNCHANGED <<binary, nmut>>

CallHeader32 == Call("Header32", Header32_new(binary))
CallHeader64 == Call("Header64", Header64_new(binary))
CallGetElfClass == Call("GetElfClass", get_elf_class(binary))
CallELF32 == Call("ELF32", ELF_new(binary, 4))
CallELF64 == Call("ELF64", ELF_new(binary, 8))
CallParseHeader == Call("ParseHeader", parse_header(binary))

\* The table decoders are handed the header decoded from the same buffer,
\* by the decoder of the width the class probe reports (the protocol the
\* probe exists for).
CallProgram32 ==
  /\ get_elf_class(binary) = Some("ELF32")
  /\ Header32_new(binary).tag = "Some"
  /\ Call("Program32", ProgramHeader_new(binary, Header32_new(binary).val, 4))
CallProgram64 ==
  /\ get_elf_class(binary) = Some("ELF64")
  /\ Header64_new(binary).tag = "Some"
  /\ Call("Program64", ProgramHeader_new(binary, Header64_new(binary).val, 8))
CallSection32 ==
  /\ get_elf_class(binary) = Some("ELF32")
  /\ Header32_new(binary).tag = "Some"
  /\ Call("Section32", SectionHeader_new(binary, Header32_new(binary).val, 4))
CallSection64 ==
  /\ get_elf_class(binary) = Some("ELF64")
  /\ Header64_new(binary).tag = "Some"
  /\ Call("Section64", SectionHeader_new(binary, Header64_new(binary).val, 8))

\* pass 1 of the section-header decode on its own
CallInner32 ==
  /\ get_elf_class(binary) = Some("ELF32")
  /\ Header32_new(binary).tag = "Some"
  /\ Call("Inner32", InnerSectionHeader_new(binary, Header32_new(binary).val, 4))
CallInner64 ==
  /\ get_elf_class(binary) = Some("ELF64")
  /\ Header64_new(binary).tag = "Some"
  /\ Call("Inner64", InnerSectionHeader_new(binary, Header64_new(binary).val, 8))

\* the full decode, by the decoder of the width the class probe reports
CallFull32 == get_elf_class(binary) = Some("ELF32") /\ CallELF32
CallFull64 == get_elf_class(binary) = Some("ELF64") /\ CallELF64

\* decoding of file headers
Next ==
  \/ \E p \in HeaderPokes : Poke(p, MaxMutations)
  \/ \E n \in HeaderCuts : Cut(n, MaxMutations)
  \/ CallHeader32
  \/ CallHeader64
  \/ CallGetElfClass
  \/ CallELF32
  \/ CallELF64
  \/ CallParseHeader

Spec == Init /\ [][Next]_vars

InitTables ==
  /\ binary \in TableTemplates
  /\ nmut = 0
  /\ op = "idle"
  /\ res = Idle

\* decoding of the program-header and section-header tables
NextTables ==
  \/ \E p \in TablePokes(binary) : Poke(p, MaxTableMutations)
  \/ \E n \in TableCuts(binary) : Cut(n, MaxTableMutations)
  \/ CallProgram32
  \/ CallProgram64
  \/ CallSection32
  \/ CallSection64
  \/ CallFull32
  \/ CallFull64
  \/ CallInner32
  \/ CallInner64

SpecTables == InitTables /\ [][NextTables]_vars

\* the slices the integer readers are applied to: of exactly 2, 4 and 8
\* bytes
Slices ==
  [1..2 -> {0, 1, 127, 128, 255}]
    \cup [1..4 -> {0, 1, 128, 255}]
    \cup [1..8 -> {1, 254}]

InitBytes ==
  /\ binary \in Slices
  /\ nmut = 0
  /\ op = "idle"
  /\ res = Idle

CallMakeU16(little) ==
  /\ Len(binary) = 2
  /\ Call(IF little THEN "make_u16_little" ELSE "make_u16_big",
          Some(make_u16(binary, little)))
CallMakeU32(little) ==
  /\ Len(binary) = 4
  /\ Call(IF little THEN "make_u32_little" ELSE "make_u32_big",
          Some(make_u32(binary, little)))
CallMakeU64(little) ==
  /\ Len(binary) = 8
  /\ Call(IF little THEN "make_u64_little" ELSE "make_u64_big",
          Some(make_u64(binary, little)))

\* the integer readers on their own
NextBytes ==
  \/ \E little \in BOOLEAN : CallMakeU16(little)
  \/ \E little \in BOOLEAN : CallMakeU32(little)
  \/ \E little \in BOOLEAN : CallMakeU64(little)

SpecBytes == InitBytes /\ [][NextBytes]_vars

TypeOK ==
  /\ binary \in Seq(0..255)
  /\ nmut \in 0..(MaxMutations + MaxTableMutations)
  /\ res.tag \in {"Idle", "Some", "None", "Panic"}
  /\ (op = "idle") = (res.tag = "Idle")

(***************************************************************************)
(* The vocabulary of the claims: what the file format says about a buffer, *)
(* read off the bytes directly.                                            *)
(***************************************************************************)

IsHeaderOp == op \in {"Header32", "Header64"}
IsFullOp == op \in {"ELF32", "ELF64"}
IsSectionOp == op \in {"Section32", "Section64"}

\* the width of the address fields the operation reads
OpWidth ==
  IF op \in {"Header32", "ELF32", "Program32", "Section32", "Inner32"} THEN 4 ELSE 8

\* the n-byte integer at offset off, in the byte order byte 5 selects
FieldAt(bin, off, n) ==
  [i \in 1..n |-> IF bin[6] = 1 THEN bin[off + i] ELSE bin[off + n + 1 - i]]

\* the value of a word, cut off at Huge
Value(x) ==
  IF \E i \in 4..Len(x) : x[i] # 0 THEN Huge
  ELSE x[1] + (IF Len(x) >= 2 THEN 256 * x[2] ELSE 0)
            + (IF Len(x) >= 3 THEN 65536 * x[3] ELSE 0)

HasMagic(bin) == Len(bin) >= 4 /\ SubSeq(bin, 1, 4) = <<127, 69, 76, 70>>

RecognizedABI == (0..4) \cup (6..17)
RecognizedObjectType == {0, 1, 2, 3, 4, 65024, 65279, 65280, 65535}
RecognizedISA == {0, 2, 3, 8, 20, 22, 40, 42, 50, 62, 183, 243}

\* the validity conditions on the bytes at 0x00..0x13 (they all exist)
IdentValid(bin) ==
  /\ HasMagic(bin)
  /\ bin[5] \in {1, 2}
  /\ bin[6] \in {1, 2}
  /\ bin[7] = 1
  /\ bin[8] \in RecognizedABI
  /\ Value(FieldAt(bin, 16, 2)) \in RecognizedObjectType
  /\ Value(FieldAt(bin, 18, 2)) \in RecognizedISA

(* ------------------------------- C1 ----------------------------------- *)

\* C1: for every buffer of at least 4 bytes whose first 4 bytes are not
\* 0x7F 'E' 'L' 'F', Header::<u32>::new, Header::<u64>::new and ELF::new
\* return None, whatever the other bytes are.
C1_BadMagicFails ==
  ((IsHeaderOp \/ IsFullOp) /\ Len(binary) >= 4 /\ ~HasMagic(binary))
    => res = None

\* a full-length buffer with a wrong last signature byte has been refused
C1_Witness ==
  /\ op = "ELF64"
  /\ Len(binary) >= 64
  /\ binary[4] # 70
  /\ SubSeq(binary, 1, 3) = <<127, 69, 76>>
  /\ res = None

(* ------------------------------- C2 ----------------------------------- *)

\* C2: whenever the header decode returns a header the bytes at 0x00..0x13
\* satisfy every validity condition (magic, class in {1,2}, endianness in
\* {1,2}, version 1, recognized ABI, object type and instruction set), and
\* whenever one of the conditions is violated the decode returns None.
C2_NoPartialHeader ==
  IsHeaderOp =>
    /\ (res.tag = "Some" => Len(binary) >= 20 /\ IdentValid(binary))
    /\ ((Len(binary) >= 20 /\ ~IdentValid(binary)) => res = None)

(* ------------------------------- C3 ----------------------------------- *)

\* the address fields and the fields after them, as the layout of width w
\* places them
LayoutOK(h, bin, w) ==
  /\ h.entry_point = FieldAt(bin, 24, w)
  /\ h.program_header_offset = FieldAt(bin, 24 + w, w)
  /\ h.section_header_offset = FieldAt(bin, 24 + 2 * w, w)
  /\ h.flags = FieldAt(bin, 24 + 3 * w, 4)
  /\ h.header_size = FieldAt(bin, 24 + 3 * w + 4, 2)
  /\ h.program_header_size = FieldAt(bin, 24 + 3 * w + 6, 2)
  /\ h.program_header_number = FieldAt(bin, 24 + 3 * w + 8, 2)
  /\ h.section_header_size = FieldAt(bin, 24 + 3 * w + 10, 2)
  /\ h.section_header_number = FieldAt(bin, 24 + 3 * w + 12, 2)
  /\ h.section_name_table_entry = FieldAt(bin, 24 + 3 * w + 14, 2)

\* the concrete scenario: a 64-bit little-endian SystemV x86-64 executable
Scenario(bin) ==
  /\ Len(bin) >= 64
  /\ HasMagic(bin)
  /\ SubSeq(bin, 5, 8) = <<2, 1, 1, 0>>
  /\ SubSeq(bin, 17, 24) = <<2, 0, 62, 0, 1, 0, 0, 0>>

\* C3: a header returned by Header::<u64>::new has entry point and table
\* offsets read as 8-byte integers at 0x18, 0x20, 0x28, flags at 0x30 and
\* the six 16-bit fields at 0x34..0x3F; one returned by Header::<u32>::new
\* has them at 0x18, 0x1C, 0x20, 0x24 and 0x28..0x33; every field is in the
\* byte order byte 5 selects; and the concrete scenario decodes to
\* ELF64 / Little / SystemV / EXEC / x86_64.
C3_HeaderLayout ==
  /\ (op = "Header64" /\ res.tag = "Some") => LayoutOK(res.val, binary, 8)
  /\ (op = "Header32" /\ res.tag = "Some") => LayoutOK(res.val, binary, 4)
  /\ (op = "Header64" /\ Scenario(binary)) =>
       /\ res.tag = "Some"
       /\ res.val.elf_class = "ELF64"
       /\ res.val.endian = "Little"
       /\ res.val.target_abi = "SystemV"
       /\ res.val.object_type = "EXEC"
       /\ res.val.target_isa = "x86_64"

\* a big-endian 64-bit header has been decoded, its entry point not a
\* palindrome of bytes
C3_Witness ==
  /\ op = "Header64"
  /\ res.tag = "Some"
  /\ res.val.endian = "Big"
  /\ res.val.entry_point # Reverse(res.val.entry_point)

(* ------------------------------- C4 ----------------------------------- *)

\* C4: in every successful header decode the address fields were read 4
\* bytes wide iff the class byte is 1 and 8 bytes wide iff it is 2:
\* Header::<u64>::new never returns a header of class ELF32 and
\* Header::<u32>::new never one of class ELF64.
C4_WidthFollowsClass ==
  (IsHeaderOp /\ res.tag = "Some") =>
    /\ (OpWidth = 4) = (binary[5] = 1)
    /\ (OpWidth = 8) = (binary[5] = 2)
    /\ (op = "Header64" => res.val.elf_class # "ELF32")
    /\ (op = "Header32" => res.val.elf_class # "ELF64")

(* ------------------------------- C5 ----------------------------------- *)

\* a buffer holding a whole header of width w, big-endian, every field valid,
\* the 32-bit version field at 0x14 equal to 1 in big-endian order
BigEndianValid(bin, w) ==
  /\ Len(bin) >= 24 + 3 * w + 16
  /\ IdentValid(bin)
  /\ bin[5] = (IF w = 4 THEN 1 ELSE 2)
  /\ bin[6] = 2
  /\ SubSeq(bin, 21, 24) = <<0, 0, 0, 1>>

\* C5: the 32-bit version field at 0x14..0x17 is validated in the byte
\* order byte 5 selects (or ignored): a big-endian buffer whose bytes
\* 0x14..0x17 are 00 00 00 01 and whose other fields are valid decodes to
\* a header with endian = Big.
C5_BigEndianVersion ==
  (IsHeaderOp /\ BigEndianValid(binary, OpWidth)) =>
    (res.tag = "Some" /\ res.val.endian = "Big")

(* ------------------------------- C6 ----------------------------------- *)

\* C6: an out-of-bounds field read is reported as None, never as an abort:
\* no decode of a buffer too short for a field the decoder needs aborts
\* (the decoder being the one of the class the buffer declares).
C6_NoAbort ==
  ( \/ op = "GetElfClass"
    \/ op # "idle" /\ (Len(binary) >= 5 => OpWidth = (IF binary[5] = 1 THEN 4 ELSE 8)) )
  => res.tag # "Panic"

(* ------------------- the section table, from the bytes ---------------- *)

\* the width of the class the buffer declares
ClassWidth(bin) == IF bin[5] = 1 THEN 4 ELSE 8

ShOff(bin) == Value(FieldAt(bin, 24 + 2 * ClassWidth(bin), ClassWidth(bin)))
ShEntSize(bin) == Value(FieldAt(bin, 24 + 3 * ClassWidth(bin) + 10, 2))
ShNum(bin) == Value(FieldAt(bin, 24 + 3 * ClassWidth(bin) + 12, 2))
ShStrNdx(bin) == Value(FieldAt(bin, 24 + 3 * ClassWidth(bin) + 14, 2))

\* the offset of slot i (from 0) of the section-header table
SlotBase(bin, i) == ShOff(bin) + i * ShEntSize(bin)

\* every declared slot lies inside the buffer
SlotsInBounds(bin) ==
  \A i \in 0..(ShNum(bin) - 1) : SlotBase(bin, i) + SectionLen(ClassWidth(bin)) <= Len(bin)

RawName(bin, i) == Value(FieldAt(bin, SlotBase(bin, i), 4))
RawType(bin, i) == FieldAt(bin, SlotBase(bin, i) + 4, 4)
RawOffset(bin, i) ==
  Value(FieldAt(bin, SlotBase(bin, i) + (IF ClassWidth(bin) = 4 THEN 16 ELSE 24),
                ClassWidth(bin)))

\* where the name of slot i starts when slot k is the string table
NameStart(bin, k, i) == RawOffset(bin, k) + RawName(bin, i)

\* a zero byte occurs at or after offset start
Terminated(bin, start) == \E j \in (start + 1)..Len(bin) : bin[j] = 0

\* the bytes from offset start up to, not including, the first zero byte
NameBytes(bin, start) ==
  LET e == CHOOSE j \in (start + 1)..Len(bin) :
             bin[j] = 0 /\ \A m \in (start + 1)..(j - 1) : bin[m] # 0
  IN SubSeq(bin, start + 1, e - 1)

(* ------------------------------- C7 ----------------------------------- *)

\* C7: the string table is the raw record at the index the file header's
\* string-table-index field gives: for every index k in range, each name is
\* read from (offset of record k + raw name offset), whether or not record
\* k is the last one.
C7_NamesFromIndexedTable ==
  (IsSectionOp /\ res.tag = "Some" /\ ShStrNdx(binary) < ShNum(binary)) =>
    \A i \in 1..Len(res.val) :
      LET start == NameStart(binary, ShStrNdx(binary), i - 1)
      IN /\ Terminated(binary, start)
         /\ res.val[i].name = NameBytes(binary, start)

(* ------------------------------- C8 ----------------------------------- *)

\* C8: a section whose name start (string-table offset + raw name offset)
\* lies past the end of the buffer makes the section-header decode return
\* None; it never aborts.  (Stated for tables whose string table is both
\* the indexed and the last record.)
C8_NameStartPastEnd ==
  ( /\ IsSectionOp
    /\ ShNum(binary) >= 1
    /\ SlotsInBounds(binary)
    /\ ShStrNdx(binary) = ShNum(binary) - 1
    /\ \E i \in 0..(ShNum(binary) - 1) :
         NameStart(binary, ShStrNdx(binary), i) > Len(binary) )
  => res = None

(* ------------------------------- C9 ----------------------------------- *)

\* C9: each resolved name is exactly the bytes from (string-table offset +
\* raw name offset) up to the first zero byte; if for any section no zero
\* byte occurs before the end of the buffer, or the bytes are not valid
\* UTF-8, the whole decode returns None.  (Stated for tables whose string
\* table is both the indexed and the last record.)
C9_ExactNames ==
  ( /\ IsSectionOp
    /\ ShNum(binary) >= 1
    /\ SlotsInBounds(binary)
    /\ ShStrNdx(binary) = ShNum(binary) - 1 )
  =>
    /\ res.tag = "Some" =>
         \A i \in 1..Len(res.val) :
           LET start == NameStart(binary, ShStrNdx(binary), i - 1)
           IN /\ Terminated(binary, start)
              /\ res.val[i].name = NameBytes(binary, start)
    /\ (\E i \in 0..(ShNum(binary) - 1) :
          LET start == NameStart(binary, ShStrNdx(binary), i)
          IN \/ ~Terminated(binary, start)
             \/ ~Utf8Valid(NameBytes(binary, start)))
       => res = None

(* ------------------------------- C10 ---------------------------------- *)

FixedTypes ==
  {<<0, "Null">>, <<1, "ProgBits">>, <<2, "SymTab">>, <<3, "StrTab">>,
   <<4, "Rela">>, <<5, "Hash">>, <<6, "Dynamic">>, <<7, "Note">>,
   <<8, "NoBits">>, <<9, "Rel">>, <<10, "ShLib">>, <<11, "DynSym">>,
   <<14, "InitArray">>, <<15, "FiniArray">>, <<16, "PreinitArray">>,
   <<17, "Group">>, <<18, "SymTabSHNDX">>, <<19, "Num">>}

IsFixedType(v) == v[2] = 0 /\ v[3] = 0 /\ v[4] = 0 /\ \E f \in FixedTypes : f[1] = v[1]

\* a reserved range of 2^28 values is the set of the values with one top
\* hex digit: the top byte of the value is in first..first + 15
InReserved(v, first) == v[4] \in first..(first + 15)

TypeRecognized(v) ==
  IsFixedType(v) \/ InReserved(v, 96) \/ InReserved(v, 112) \/ InReserved(v, 128)

\* the variant a recognized section type value is reported as
TypeVariant(v) ==
  IF IsFixedType(v)
    THEN Variant((CHOOSE f \in FixedTypes : f[1] = v[1])[2], <<0, 0, 0, 0>>)
  ELSE IF InReserved(v, 96) THEN Variant("Loos", <<v[1], v[2], v[3], v[4] - 96>>)
  ELSE IF InReserved(v, 112) THEN Variant("LoProc", <<v[1], v[2], v[3], v[4] - 112>>)
  ELSE Variant("LoUser", <<v[1], v[2], v[3], v[4] - 128>>)

\* some slot of a table that lies inside the buffer holds the type v
SomeSlotHasType(bin, v) ==
  /\ SlotsInBounds(bin)
  /\ \E i \in 0..(ShNum(bin) - 1) : RawType(bin, i) = v

\* C10 as stated: 0x6000_0000 is accepted as the OS-range variant with
\* offset 0 (v in the range reports v - base), the value one past the end of
\* the OS-reserved range (0x7000_0000) makes the decode fail, and values in
\* none of the fixed set or the three ranges are rejected.
C10_Original ==
  IsSectionOp =>
    /\ res.tag = "Some" =>
         \A i \in 1..Len(res.val) :
           InReserved(RawType(binary, i - 1), 96) =>
             res.val[i].inner.section_type = TypeVariant(RawType(binary, i - 1))
    /\ SomeSlotHasType(binary, <<0, 0, 0, 112>>) => res = None
    /\ (SlotsInBounds(binary)
        /\ \E i \in 0..(ShNum(binary) - 1) : ~TypeRecognized(RawType(binary, i)))
       => res = None

\* C10 as amended: every decoded section reports the variant of its type
\* value (0x6000_0000 the OS-range variant with offset 0, v in a range the
\* offset v - base); the value one past the end of the OS-reserved range,
\* 0x7000_0000, is the first value of the processor range and is reported
\* as that variant with offset 0; a value in none of the fixed set or the
\* three ranges, such as the one past the end of the user range,
\* 0x9000_0000, makes the decode return None.
C10_SectionTypeRanges ==
  IsSectionOp =>
    /\ res.tag = "Some" =>
         \A i \in 1..Len(res.val) :
           /\ TypeRecognized(RawType(binary, i - 1))
           /\ res.val[i].inner.section_type = TypeVariant(RawType(binary, i - 1))
    /\ (SlotsInBounds(binary)
        /\ \E i \in 0..(ShNum(binary) - 1) : ~TypeRecognized(RawType(binary, i)))
       => res = None

\* a table with a section of type 0x7000_0000 has been decoded
C10_Witness ==
  /\ IsSectionOp
  /\ res.tag = "Some"
  /\ \E i \in 1..Len(res.val) :
       /\ RawType(binary, i - 1) = <<0, 0, 0, 112>>
       /\ res.val[i].inner.section_type = Variant("LoProc", <<0, 0, 0, 0>>)

(* ------------------- the program table, from the bytes ---------------- *)

IsProgramOp == op \in {"Program32", "Program64"}

PhOff(bin) == Value(FieldAt(bin, 24 + ClassWidth(bin), ClassWidth(bin)))
PhEntSize(bin) == Value(FieldAt(bin, 24 + 3 * ClassWidth(bin) + 6, 2))
PhNum(bin) == Value(FieldAt(bin, 24 + 3 * ClassWidth(bin) + 8, 2))

\* the offset of slot i (from 0) of the program-header table
SegmentBase(bin, i) == PhOff(bin) + i * PhEntSize(bin)

\* the record decoded from the slot that starts at offset base
SegmentAt(bin, base) ==
  LET w == ClassWidth(bin)
      entry == ProgramEntry(base, w)
      order == [endian |-> IF bin[6] = 1 THEN "Little" ELSE "Big"]
  IN ProgramHeader_construct(bin, order,
       make_u32(Range(bin, entry[8]), bin[6] = 1), entry, w)

(* ------------------------------- C11 ---------------------------------- *)

\* C11: when the program-header decode succeeds the returned sequence has
\* exactly as many elements as the header's program-header count, and
\* element i is the record decoded from the slot at byte offset
\* program_header_offset + i * program_header_entry_size, for every i.
C11_SegmentsInSlotOrder ==
  (IsProgramOp /\ res.tag = "Some") =>
    /\ Len(res.val) = PhNum(binary)
    /\ \A i \in 1..Len(res.val) :
         Some(res.val[i]) = SegmentAt(binary, SegmentBase(binary, i - 1))

\* two slots that overlap (the entry size is smaller than a slot) have been
\* decoded into two different records
C11_Witness ==
  /\ IsProgramOp
  /\ res.tag = "Some"
  /\ Len(res.val) = 2
  /\ PhEntSize(binary) < ProgramLen(ClassWidth(binary))
  /\ res.val[1] # res.val[2]

(* ------------------------------- C12 ---------------------------------- *)

\* every declared slot of the program-header table lies inside the buffer
SegmentsInBounds(bin) ==
  \A i \in 0..(PhNum(bin) - 1) :
    SegmentBase(bin, i) + ProgramLen(ClassWidth(bin)) <= Len(bin)

RawSegmentType(bin, i) == FieldAt(bin, SegmentBase(bin, i), 4)

\* 0..7, 0x6000_0000, 0x6FFF_FFFF, 0x7000_0000 and 0x7FFF_FFFF
SegmentTypeRecognized(v) ==
  \/ v[1] \in 0..7 /\ v[2] = 0 /\ v[3] = 0 /\ v[4] = 0
  \/ v \in {<<0, 0, 0, 96>>, <<255, 255, 255, 111>>,
            <<0, 0, 0, 112>>, <<255, 255, 255, 127>>}

\* C12: program-header decoding is fail-fast: if the segment-type field of
\* any one declared slot is not a recognized value (0..7, 0x6000_0000,
\* 0x6FFF_FFFF, 0x7000_0000, 0x7FFF_FFFF) the whole decode returns None,
\* however many earlier or later slots are valid, and a returned sequence
\* never has a slot left out.  (Stated for tables whose declared slots lie
\* inside the buffer.)
C12_SegmentTypeFailFast ==
  IsProgramOp =>
    /\ (SegmentsInBounds(binary)
        /\ \E i \in 0..(PhNum(binary) - 1) :
             ~SegmentTypeRecognized(RawSegmentType(binary, i)))
       => res = None
    /\ res.tag = "Some" =>
         /\ Len(res.val) = PhNum(binary)
         /\ \A i \in 0..(PhNum(binary) - 1) :
              SegmentTypeRecognized(RawSegmentType(binary, i))

\* a table of two slots, the first valid and the second of an unrecognized
\* type, has been refused
C12_Witness ==
  /\ IsProgramOp
  /\ res = None
  /\ PhNum(binary) = 2
  /\ SegmentsInBounds(binary)
  /\ SegmentTypeRecognized(RawSegmentType(binary, 0))
  /\ ~SegmentTypeRecognized(RawSegmentType(binary, 1))

(* ------------------------------- C13 ---------------------------------- *)

\* C13: for a section-header table with count 0 the section-header decode
\* returns the empty sequence and not a failure, whatever the header's
\* section-header offset, entry size and string-table index and whatever
\* the buffer holds.
C13_EmptySectionTable ==
  (IsSectionOp /\ ShNum(binary) = 0) => res = Some(<<>>)

\* an empty table whose offset lies past the end of the buffer has been
\* decoded
C13_Witness ==
  /\ IsSectionOp
  /\ ShNum(binary) = 0
  /\ ShOff(binary) > Len(binary)
  /\ res = Some(<<>>)

(* ------------------------------- C14 ---------------------------------- *)

\* the three stages of the full decode, each run on its own
HeaderStage(bin, w) == IF w = 4 THEN Header32_new(bin) ELSE Header64_new(bin)
ProgramStage(bin, w) == ProgramHeader_new(bin, HeaderStage(bin, w).val, w)
SectionStage(bin, w) == SectionHeader_new(bin, HeaderStage(bin, w).val, w)

\* C14: ELF::new runs the stages in the order header, program-header table,
\* section-header table, the later stages on the decoded header; it returns
\* the populated triple only if all three stages succeed, and if a stage
\* fails it returns None, with no result of an earlier stage and without
\* running a later stage.
C14_StagesInOrder ==
  IsFullOp =>
    LET h == HeaderStage(binary, OpWidth)
    IN /\ h = None => res = None
       /\ (h.tag = "Some" /\ ProgramStage(binary, OpWidth) = None) => res = None
       /\ ( /\ h.tag = "Some"
            /\ ProgramStage(binary, OpWidth).tag = "Some"
            /\ SectionStage(binary, OpWidth) = None ) => res = None
       /\ res.tag = "Some" =>
            /\ h.tag = "Some"
            /\ ProgramStage(binary, OpWidth).tag = "Some"
            /\ SectionStage(binary, OpWidth).tag = "Some"
            /\ res.val = [header |-> h.val,
                          program_headers |-> ProgramStage(binary, OpWidth).val,
                          section_headers |-> SectionStage(binary, OpWidth).val,
                          data |-> binary]
       /\ ( /\ h.tag = "Some"
            /\ ProgramStage(binary, OpWidth).tag = "Some"
            /\ SectionStage(binary, OpWidth).tag = "Some" ) => res.tag = "Some"

\* the program-header stage has failed on a file whose section-header stage
\* would have aborted, and the decode has returned None
C14_Witness ==
  /\ IsFullOp
  /\ HeaderStage(binary, OpWidth).tag = "Some"
  /\ ProgramStage(binary, OpWidth) = None
  /\ SectionStage(binary, OpWidth) = Panic
  /\ res = None

(* ------------------------------- C15 ---------------------------------- *)

IsMakeOp ==
  op \in {"make_u16_little", "make_u16_big", "make_u32_little",
          "make_u32_big", "make_u64_little", "make_u64_big"}
IsLittleOp == op \in {"make_u16_little", "make_u32_little", "make_u64_little"}

\* the reader of the width of the slice
MakeOf(values, little) ==
  IF Len(values) = 2 THEN make_u16(values, little)
  ELSE IF Len(values) = 4 THEN make_u32(values, little)
  ELSE make_u64(values, little)

\* C15: for a slice b of exactly 2, 4 or 8 bytes make_u16 / make_u32 /
\* make_u64 return the sum of b[i] * 256^i when little_endian is true and of
\* b[i] * 256^(n-1-i) when it is false (the base-256 digit of weight 256^i
\* of the result is b[i], respectively b[n-1-i]); the result fits the width
\* (n digits, each below 256); and the big-endian decode of a slice is the
\* little-endian decode of the reversed slice.
C15_IntegerReaders ==
  IsMakeOp =>
    LET n == Len(binary)
    IN /\ res.tag = "Some"
       /\ Len(res.val) = n
       /\ \A i \in 1..n :
            /\ res.val[i] \in 0..255
            /\ res.val[i] = (IF IsLittleOp THEN binary[i] ELSE binary[n + 1 - i])
       /\ n = 2 =>
            Value(res.val) = (IF IsLittleOp THEN binary[1] + 256 * binary[2]
                                           ELSE binary[2] + 256 * binary[1])
       /\ MakeOf(binary, FALSE) = MakeOf(Reverse(binary), TRUE)

\* a 32-bit slice that is not its own reverse has been read big-endian
C15_Witness ==
  /\ op = "make_u32_big"
  /\ binary = <<0, 1, 128, 255>>
  /\ res = Some(<<255, 128, 1, 0>>)

(* ------------------------------- C16 ---------------------------------- *)

\* C16: the class probe depends only on the byte at offset 4: it returns
\* ELF32 for 1, ELF64 for 2 and None for every other value, so two buffers
\* that agree at offset 4 get the same answer, also when the magic, the
\* version or any other byte is invalid.
C16_ProbeReadsClassByte ==
  (op = "GetElfClass" /\ Len(binary) >= 5) =>
    res = (IF binary[5] = 1 THEN Some("ELF32")
           ELSE IF binary[5] = 2 THEN Some("ELF64")
           ELSE None)

\* a buffer without the signature, cut off before the version byte, has
\* been probed and reported as 64-bit
C16_Witness ==
  /\ op = "GetElfClass"
  /\ Len(binary) \in 5..6
  /\ ~HasMagic(binary)
  /\ res = Some("ELF64")

(* ------------------------------- C17 ---------------------------------- *)

SegmentTypes ==
  {<<0, "Null">>, <<1, "Load">>, <<2, "Dynamic">>, <<3, "Interp">>,
   <<4, "Note">>, <<5, "Shlib">>, <<6, "Phdr">>, <<7, "Tls">>}

\* the name of a recognized segment type value
SegmentTypeName(v) ==
  IF v = <<0, 0, 0, 96>> THEN "Loos"
  ELSE IF v = <<255, 255, 255, 111>> THEN "Hios"
  ELSE IF v = <<0, 0, 0, 112>> THEN "Loproc"
  ELSE IF v = <<255, 255, 255, 127>> THEN "Hiproc"
  ELSE (CHOOSE t \in SegmentTypes : t[1] = v[1])[2]

\* the record r is the slot at base read in the 64-bit layout
Segment64(r, bin, base) ==
  /\ r.program_type = SegmentTypeName(FieldAt(bin, base, 4))
  /\ r.flags = FieldAt(bin, base + 4, 4)
  /\ r.offset = FieldAt(bin, base + 8, 8)
  /\ r.vaddr = FieldAt(bin, base + 16, 8)
  /\ r.paddr = FieldAt(bin, base + 24, 8)
  /\ r.file_size = FieldAt(bin, base + 32, 8)
  /\ r.memory_size = FieldAt(bin, base + 40, 8)
  /\ r.align = FieldAt(bin, base + 48, 8)

\* the record r is the slot at base read in the 32-bit layout
Segment32(r, bin, base) ==
  /\ r.program_type = SegmentTypeName(FieldAt(bin, base, 4))
  /\ r.offset = FieldAt(bin, base + 4, 4)
  /\ r.vaddr = FieldAt(bin, base + 8, 4)
  /\ r.paddr = FieldAt(bin, base + 12, 4)
  /\ r.file_size = FieldAt(bin, base + 16, 4)
  /\ r.memory_size = FieldAt(bin, base + 20, 4)
  /\ r.flags = FieldAt(bin, base + 24, 4)
  /\ r.align = FieldAt(bin, base + 28, 4)

\* no byte of a slot is read for two fields
FieldsDisjoint(w) ==
  \A j, k \in 1..8 :
    j # k => \/ ProgramEntry(0, w)[j][2] <= ProgramEntry(0, w)[k][1]
             \/ ProgramEntry(0, w)[k][2] <= ProgramEntry(0, w)[j][1]

\* C17: each program-header slot is decoded with the layout of the header's
\* class: 64-bit, type at +0x00, flags at +0x04 (4 bytes each), offset,
\* vaddr, paddr, file size, memory size, alignment 8 bytes wide at +0x08,
\* +0x10, +0x18, +0x20, +0x28, +0x30; 32-bit, type at +0x00, offset, vaddr,
\* paddr, file size, memory size at +0x04 .. +0x14, flags at +0x18,
\* alignment at +0x1C, all 4 bytes wide; no byte is used for two fields.
C17_SegmentLayout ==
  (IsProgramOp /\ res.tag = "Some") =>
    /\ OpWidth = ClassWidth(binary)
    /\ FieldsDisjoint(OpWidth)
    /\ \A i \in 1..Len(res.val) :
         IF ClassWidth(binary) = 8
           THEN Segment64(res.val[i], binary, SegmentBase(binary, i - 1))
           ELSE Segment32(res.val[i], binary, SegmentBase(binary, i - 1))

\* a 32-bit big-endian slot with flags, and with fields that differ from
\* each other, has been decoded
C17_Witness ==
  /\ op = "Program32"
  /\ res.tag = "Some"
  /\ binary[6] = 2
  /\ res.val[1].flags = <<5, 0, 0, 0>>
  /\ res.val[1].vaddr # res.val[1].paddr
  /\ res.val[1].file_size # res.val[1].memory_size
  /\ res.val[1].align # res.val[1].flags

(* ------------------------------- C18 ---------------------------------- *)

IsInnerOp == op \in {"Inner32", "Inner64"}

\* the record r is the slot at base read in the 64-bit layout
Section64(r, bin, base) ==
  /\ r.name_offset = Value(FieldAt(bin, base, 4))
  /\ r.section_type = TypeVariant(FieldAt(bin, base + 4, 4))
  /\ r.flags = FieldAt(bin, base + 8, 8)
  /\ r.addr = FieldAt(bin, base + 16, 8)
  /\ r.offset = FieldAt(bin, base + 24, 8)
  /\ r.size = FieldAt(bin, base + 32, 8)
  /\ r.link = FieldAt(bin, base + 40, 4)
  /\ r.info = FieldAt(bin, base + 44, 4)
  /\ r.addr_align = FieldAt(bin, base + 48, 8)
  /\ r.entry_size = FieldAt(bin, base + 56, 8)

\* the record r is the slot at base read in the 32-bit layout
Section32(r, bin, base) ==
  /\ r.name_offset = Value(FieldAt(bin, base, 4))
  /\ r.section_type = TypeVariant(FieldAt(bin, base + 4, 4))
  /\ r.flags = FieldAt(bin, base + 8, 4)
  /\ r.addr = FieldAt(bin, base + 12, 4)
  /\ r.offset = FieldAt(bin, base + 16, 4)
  /\ r.size = FieldAt(bin, base + 20, 4)
  /\ r.link = FieldAt(bin, base + 24, 4)
  /\ r.info = FieldAt(bin, base + 28, 4)
  /\ r.addr_align = FieldAt(bin, base + 32, 4)
  /\ r.entry_size = FieldAt(bin, base + 36, 4)

SectionRead(r, bin, i) ==
  IF ClassWidth(bin) = 8 THEN Section64(r, bin, SlotBase(bin, i))
  ELSE Section32(r, bin, SlotBase(bin, i))

\* C18: pass 1 of the section-header decode reads, for slot i at
\* section_header_offset + i * section_header_entry_size, the raw name
\* offset and the type as 32-bit fields at +0x00 and +0x04, link and info as
\* 32-bit fields (+0x18/+0x1C for 32-bit, +0x28/+0x2C for 64-bit), and
\* flags, address, offset, size, address alignment and entry size at class
\* width (+0x08, +0x0C, +0x10, +0x14, +0x20, +0x24, respectively +0x08,
\* +0x10, +0x18, +0x20, +0x30, +0x38); an unrecognized section type in any
\* slot ends the pass, so that no name is resolved and no sequence is
\* returned.  (The last part stated for tables whose slots lie inside the
\* buffer.)
C18_SectionPassOne ==
  /\ (IsInnerOp /\ res.tag = "Some") =>
       /\ Len(res.val) = ShNum(binary)
       /\ \A i \in 1..Len(res.val) : SectionRead(res.val[i], binary, i - 1)
  /\ (IsSectionOp /\ res.tag = "Some") =>
       \A i \in 1..Len(res.val) : SectionRead(res.val[i].inner, binary, i - 1)
  /\ ( /\ IsInnerOp \/ IsSectionOp
       /\ SlotsInBounds(binary)
       /\ \E i \in 0..(ShNum(binary) - 1) : ~TypeRecognized(RawType(binary, i)) )
     => res = None

\* pass 1 has decoded three slots, the second with link 2 and info 3, of a
\* file one of whose names starts past the end of the buffer
C18_Witness ==
  /\ IsInnerOp
  /\ res.tag = "Some"
  /\ Len(res.val) = 3
  /\ Value(res.val[2].link) = 2
  /\ Value(res.val[2].info) = 3
  /\ NameStart(binary, 2, 2) > Len(binary)

(* ------------------------------- C19 ---------------------------------- *)

\* the header a of main.rs and the header b of header.rs report the same
SameHeader(a, b) ==
  /\ a.is_little_endian = (b.endian = "Little")
  /\ a.target_abi = b.target_abi
  /\ a.abi_version = b.abi_version
  /\ a.object_type = b.object_type
  /\ a.target_isa = b.target_isa
  /\ a.entry_point = b.entry_point
  /\ a.program_header_offset = b.program_header_offset
  /\ a.section_header_offset = b.section_header_offset
  /\ a.flags = b.flags
  /\ a.header_size = b.header_size
  /\ a.program_header_size = b.program_header_size
  /\ a.program_header_number = b.program_header_number
  /\ a.section_header_size = b.section_header_size
  /\ a.section_header_number = b.section_header_number
  /\ a.section_name_table_index = b.section_name_table_entry

\* C19: the two 64-bit header decoders are equivalent: for every buffer of
\* at least 0x40 bytes with class byte 2, parse_header (main.rs) and
\* Header::<u64>::new (header.rs) both fail or both succeed, and when they
\* succeed they report the same endianness, ABI, ABI version, object type,
\* instruction set, entry point, table offsets, flags, sizes, counts and
\* string-table index.
C19_DecodersEquivalent ==
  (op = "ParseHeader" /\ Len(binary) >= 64 /\ binary[5] = 2) =>
    /\ (res = None) = (Header64_new(binary) = None)
    /\ (res.tag = "Some") = (Header64_new(binary).tag = "Some")
    /\ res.tag = "Some" => SameHeader(res.val, Header64_new(binary).val)

====
